---- MODULE Spec2Model ----
(***************************************************************************)
(* A model of setup.py (class ProjectSetup): the runs of setup() in one     *)
(* working directory as a state machine over the files, the prompts and    *)
(* the subprocesses, with the text helpers of the script as operators.     *)
(*                                                                         *)
(* Text is a sequence of one-character strings.  A few fixed pieces of the *)
(* templates (a section header, a file-name stem) are kept as one atomic   *)
(* element; an atomic element is never whitespace and equals a marker only *)
(* when it is that marker.                                                 *)
(***************************************************************************)
EXTENDS Integers, Sequences, FiniteSets, TLC

VARIABLES
    sysname,        \* os.uname().sysname of the host
    cwd_name,       \* Path(os.getcwd()).name
    files,          \* working directory: path -> text of every existing file
    dirs,           \* working directory: the directories that exist
    start_files,    \* `files` as it was when the current run started
    pc,             \* position of the current run inside setup()
    exit_status,    \* -1 while running, else the status the process ended with
    use_poetry,     \* self._use_poetry
    package_name,   \* self._package_name
    path_prepended, \* ~/.local/bin was prepended to os.environ["PATH"]
    discovered,     \* the list get_list_of_requirements_files() returned
    req_idx,        \* number of entries of `discovered` already installed
    log             \* what the run did so far, in order

vars == << sysname, cwd_name, files, dirs, start_files, pc, exit_status,
           use_poetry, package_name, path_prepended, discovered, req_idx, log >>

(***************************************************************************)
(* Bounds of the model.                                                    *)
(***************************************************************************)
\* longest pre-existing pyproject.toml, in elements
MaxTokens == 2
\* longest pre-existing requirements.txt of the manifest specification
MaxReqLen == 4
\* longest working-directory name of the package-name specification
MaxNameLen == 4

(***************************************************************************)
(* Sequences and strings.                                                  *)
(***************************************************************************)
Range(s) == { s[i] : i \in 1..Len(s) }

BoundedSeq(S, n) == UNION { [1..k -> S] : k \in 0..n }

Spaces(n) == [i \in 1..n |-> " "]

\* str.strip(): the characters Python counts as whitespace
Whitespace == { " ", "\t", "\n", "\f" }

\* str.splitlines(): the line boundaries (among the characters modelled)
LineBoundary == { "\n", "\f" }

\* str.strip()
Strip(s) ==
    LET kept == { i \in 1..Len(s) : s[i] \notin Whitespace }
    IN  IF kept = { } THEN << >>
        ELSE SubSeq(s, CHOOSE i \in kept : \A j \in kept : i <= j,
                       CHOOSE i \in kept : \A j \in kept : j <= i)

\* str.split(sep) for one-character separators: the pieces between the
\* separators, always at least one piece
SplitOn(s, seps) ==
    LET at == { i \in 1..Len(s) : s[i] \in seps }
        \* the k-th separator; position 0 before the text, Len(s) + 1 after it
        Cut(k) == IF k = 0 THEN 0
                  ELSE IF k > Cardinality(at) THEN Len(s) + 1
                  ELSE CHOOSE i \in at : Cardinality({ j \in at : j < i }) = k - 1
    IN  [ k \in 1..(Cardinality(at) + 1) |-> SubSeq(s, Cut(k - 1) + 1, Cut(k) - 1) ]

Split(s, sep) == SplitOn(s, { sep })

\* the pieces without a last empty one: a terminated last line is no new line
DropLastEmpty(parts) ==
    IF parts[Len(parts)] = << >> THEN SubSeq(parts, 1, Len(parts) - 1) ELSE parts

\* str.splitlines()
SplitLines(s) == DropLastEmpty(SplitOn(s, LineBoundary))

\* "for line in f" over a text file: one line per newline
FileLines(s) == DropLastEmpty(Split(s, "\n"))

\* sep.join(parts), sep a text
RECURSIVE JoinFrom(_, _, _, _)
JoinFrom(parts, sep, i, acc) ==
    IF i > Len(parts) THEN acc
    ELSE JoinFrom(parts, sep, i + 1,
                  IF i = 1 THEN parts[1] ELSE acc \o sep \o parts[i])

Join(parts, sep) == JoinFrom(parts, sep, 1, << >>)

\* [f(x) for x in parts if keep(x)]
Filter(parts, keep(_)) == SelectSeq(parts, keep)

Map(parts, f(_)) == [i \in 1..Len(parts) |-> f(parts[i])]

\* str.replace(a, b) for one-character a and b
Replace(s, a, b) == [i \in 1..Len(s) |-> IF s[i] = a THEN b ELSE s[i]]

\* str.replace(a, "")
Remove(s, a) == SelectSeq(s, LAMBDA c : c # a)

UpperToLower ==
    ("A" :> "a") @@ ("C" :> "c") @@ ("M" :> "m") @@ ("P" :> "p") @@ ("O" :> "o")

\* str.lower()
Lower(s) ==
    [i \in 1..Len(s) |->
        IF s[i] \in DOMAIN UpperToLower THEN UpperToLower[s[i]] ELSE s[i]]

\* needle in haystack, for a needle kept as one atomic element
Contains(haystack, needle) == needle \in Range(haystack)

(***************************************************************************)
(* Names and fixed texts of the script.                                    *)
(***************************************************************************)
PYPROJECT == << "pyproject", ".toml" >>
REQ       == << "requirements", ".txt" >>
DEV       == << "requirements", ".dev", ".txt" >>
EXTRA     == << "requirements", ".extra", ".txt" >>
REQ_IN    == << "requirements", ".in" >>
DEV_REQ   == << "dev-", "requirements", ".txt" >>
SETUP_PY  == << "setup", ".py" >>
VENV      == << ".venv" >>

Managed == { PYPROJECT, REQ, DEV }

NL == << "\n" >>

\* one line of an in-code template, as it stands in the source
Line(indent, text) == Spaces(indent) \o text \o NL

PlaceholderRequirements ==
    << "#", " ", "p", "r", "o", "j", "e", "c", "t", " ",
       "r", "e", "q", "u", "i", "r", "e", "m", "e", "n", "t", "s" >>

DevRequirementsContent ==
    NL \o Line(12, << "pytest" >>) \o Line(12, << "mypy" >>)
       \o Line(12, << "types-python-dateutil" >>) \o Line(12, << "build" >>)
       \o Line(12, << "toml" >>) \o Line(12, << "twine" >>)
       \o Line(12, << "wheel" >>) \o Line(12, << "pkginfo" >>)
       \o Line(12, << "hatchling" >>) \o Line(12, << "moto" >>)
       \o Spaces(8)

(***************************************************************************)
(* The pure helpers of ProjectSetup.                                       *)
(***************************************************************************)
NonBlank(line) == Strip(line) # << >>

StripLine(line) == Remove(Strip(line), "\t")

_strip_content(content) ==
    Join(Map(Filter(Split(content, "\n"), NonBlank), StripLine), NL)

Indent4(dep) == Spaces(4) \o dep

_indent_dependencies(deps) ==
    Join(Map(Filter(SplitLines(deps), NonBlank), Indent4), NL)

IsDependency(stripped) == stripped # << >> /\ stripped[1] # "#"

\* a parser that tests the lines as read, before stripping them
ConvertUnstripped(fs) ==
    IF REQ \in DOMAIN fs
    THEN Join(Filter(FileLines(fs[REQ]), IsDependency), NL)
    ELSE << >>

_convert_requirements_to_poetry(fs) ==
    IF REQ \in DOMAIN fs
    THEN Join(Filter(Map(FileLines(fs[REQ]), Strip), IsDependency), NL)
    ELSE << >>

\* a default name that keeps the hyphens
DefaultNameHyphensKept(name) == Replace(Lower(name), " ", "_")

_get_default_package_name(name) ==
    Replace(Replace(Lower(name), " ", "_"), "-", "_")

\* the package name typed at the prompt, as line 107 normalises it
NormalizePackageInput(typed) ==
    Replace(Lower(Replace(typed, " ", "-")), "-", "_")

\* open(...).read() of pyproject.toml as UTF-8 raises on a byte that is none
BadByte == "\\xff"

ReadRaises(content) == Contains(content, BadByte)

\* a detector that tests the hatch marker first
DetectHatchFirst(fs) ==
    IF PYPROJECT \notin DOMAIN fs THEN "none"
    ELSE IF ReadRaises(fs[PYPROJECT]) THEN "none"
    ELSE IF Contains(fs[PYPROJECT], "[tool.hatch]") THEN "hatch"
    ELSE IF Contains(fs[PYPROJECT], "[tool.poetry]") THEN "poetry"
    ELSE IF Contains(fs[PYPROJECT], "[tool.flit]") THEN "flit"
    ELSE "none"

_detect_project_tool(fs) ==
    IF PYPROJECT \notin DOMAIN fs THEN "none"
    ELSE IF ReadRaises(fs[PYPROJECT]) THEN "none"
    ELSE IF Contains(fs[PYPROJECT], "[tool.poetry]") THEN "poetry"
    ELSE IF Contains(fs[PYPROJECT], "[tool.hatch]") THEN "hatch"
    ELSE IF Contains(fs[PYPROJECT], "[tool.flit]") THEN "flit"
    ELSE "none"

\* a detector that takes every other system for a Linux
OsTypeLenient(sys, debian) ==
    IF sys = "Darwin" THEN "mac" ELSE (IF debian THEN "debian" ELSE "linux")

OsType(sys, debian) ==
    IF sys = "Darwin" THEN "mac"
    ELSE IF sys = "Linux" THEN (IF debian THEN "debian" ELSE "linux")
    ELSE "unknown"

\* f.startswith("requirements") and f.endswith(".txt")
IsRequirementsFile(f) ==
    f # << >> /\ f[1] = "requirements" /\ f[Len(f)] = ".txt"

PoetryTemplate(pkg, version, description, author_name, author_email, deps_block) ==
    NL \o Line(16, << "[tool.poetry]" >>)
       \o Line(16, << "name = \"" >> \o pkg \o << "\"" >>)
       \o Line(16, << "version = \"" >> \o version \o << "\"" >>)
       \o Line(16, << "description = \"" >> \o description \o << "\"" >>)
       \o Line(16, << "authors = [\"" >> \o author_name \o << " <" >>
                      \o author_email \o << ">\"]" >>)
       \o NL
       \o Line(16, << "[tool.poetry.dependencies]" >>)
       \o Line(16, << "python = \"^3.8\"" >>)
       \o _indent_dependencies(deps_block) \o NL
       \o NL
       \o Line(16, << "[tool.poetry.dev-dependencies]" >>)
       \o Line(16, << "pytest = \"^7.0\"" >>)
       \o NL
       \o Line(16, << "[build-system]" >>)
       \o Line(16, << "requires = [\"poetry-core>=1.0.0\"]" >>)
       \o Line(16, << "build-backend = \"poetry.core.masonry.api\"" >>)
       \o Spaces(12)

PipTemplate(pkg, version, description, author_name, author_email, build_system) ==
    NL \o Line(16, << "[project]" >>)
       \o Line(16, << "name = \"" >> \o pkg \o << "\"" >>)
       \o Line(16, << "version = \"" >> \o version \o << "\"" >>)
       \o Line(16, << "description = \"" >> \o description \o << "\"" >>)
       \o Line(16, << "authors = [{name=\"" >> \o author_name
                      \o << "\", email=\"" >> \o author_email \o << "\"}]" >>)
       \o Line(16, << "requires-python = \">=3.8\"" >>)
       \o NL
       \o Line(16, << "[tool.pytest.ini_options]" >>)
       \o Line(16, << "pythonpath = [\"src\"]" >>)
       \o Line(16, << "testpaths = [\"tests\", \"src\"]" >>)
       \o Line(16, << "markers = [" >>)
       \o Line(20, << "\"integration: marks tests as integration\"" >>)
       \o Line(16, << "]" >>)
       \o Line(16, << "addopts = \"-m 'not integration'\"" >>)
       \o NL
       \o Line(16, << "[build-system]" >>)
       \o Line(16, << "requires = [\"" >> \o build_system \o << "\"]" >>)
       \o Line(16, << "build-backend = \"" >> \o build_system \o << ".build\"" >>)
       \o NL
       \o Line(16, << "[tool.hatch.build.targets.wheel]" >>)
       \o Line(16, << "packages = [\"src/" >> \o pkg \o << "\"]" >>)
       \o Spaces(12)

(***************************************************************************)
(* What the outside world can answer.                                      *)
(***************************************************************************)
ExitCodes == { 0, 1 }

Sysnames == { "Darwin", "Linux", "FreeBSD" }

PIP == << "p", "i", "p" >>

POETRY == << "p", "o", "e", "t", "r", "y" >>

\* what the user may type at "Do you want to use pip or poetry?"
ToolAnswers ==
    { << >>, PIP, POETRY, << "P", "o", "e", "t", "r", "y" >>,
      << "c", "o", "n", "d", "a" >> }

\* what the user may type at "Package name"
NameInputs == { << >>, << "M", "y", " ", "A", "p", "p" >> }

\* what the user may type at the other prompts of the manifest generator
MetadataAnswers ==
    { [ version |-> << >>, description |-> << >>, author_name |-> << >>,
        author_email |-> << >>, build_system |-> << >> ],
      [ version |-> << "1.2.3" >>, description |-> << "a tool" >>,
        author_name |-> << "Ada" >>, author_email |-> << "ada@example.org" >>,
        build_system |-> << "setuptools" >> ] }

\* the directory names a script kept outside the working directory may sit beside
ScriptDirListings == SUBSET { REQ, EXTRA, REQ_IN, DEV_REQ }

MyProject == << "M", "y", " ", "P", "r", "o", "j", "e", "c", "t" >>

(***************************************************************************)
(* The file system and the log.                                            *)
(***************************************************************************)
Ev(kind, arg, rc) == [ kind |-> kind, arg |-> arg, rc |-> rc ]

Exists(fs, f) == f \in DOMAIN fs

\* open(f, "w").write(content)
WriteFile(fs, f, content) ==
    [ n \in DOMAIN fs \cup { f } |-> IF n = f THEN content ELSE fs[n] ]

\* Path.touch(exist_ok=True)
Touch(fs, f) == IF Exists(fs, f) THEN fs ELSE WriteFile(fs, f, << >>)

\* a writer that forgets the os.path.exists test
WriteEvenIfPresent(fs, filename, content) == WriteFile(fs, filename, content)

_write_if_missing(fs, filename, content) ==
    IF ~Exists(fs, filename) THEN WriteFile(fs, filename, content) ELSE fs

\* what _write_if_missing reports, and the write it does
WriteIfMissingLog(fs, filename) ==
    IF ~Exists(fs, filename)
    THEN << Ev("write", filename, 0) >>
    ELSE << Ev("exists", filename, 0) >>

SrcDir == << "src" >>

PackageDir(pkg) == << "src", "/" >> \o pkg

InitFile(pkg) == PackageDir(pkg) \o << "/", "__init__.py" >>

TestsDir == << "tests" >>

\* the first component of a path below the working directory
TopLevel(p) ==
    IF "/" \in Range(p)
    THEN SubSeq(p, 1, (CHOOSE i \in 1..Len(p) :
                          p[i] = "/" /\ \A j \in 1..(i - 1) : p[j] # "/") - 1)
    ELSE p

\* os.listdir of the working directory, the script lying in it
ListWorkingDir(fs, ds) == { TopLevel(p) : p \in DOMAIN fs \cup ds } \cup { SETUP_PY }

Orderings(S) ==
    { q \in [1..Cardinality(S) -> S] : \A i, j \in DOMAIN q : q[i] = q[j] => i = j }

get_list_of_requirements_files(listing) ==
    { f \in listing : IsRequirementsFile(f) }

\* subprocess.run without check=True
RaisesNever(rc) == FALSE

\* subprocess.run(..., check=True) raises CalledProcessError
Raises(rc) == rc # 0

(***************************************************************************)
(* The run of setup().                                                     *)
(***************************************************************************)
Exit(status) == pc' = "exited" /\ exit_status' = status

\* sys.exit(1) out of an except clause, after the error was printed
FailWith(events, message) ==
    /\ log' = log \o events \o << Ev("print_error", << message >>, 0) >>
    /\ Exit(1)

\* subprocess.run(argv, check=True) inside the try block of an installer, after
\* the events `before` of the same step
RunCheckedAfter(before, argv, rc, message, next_pc) ==
    IF Raises(rc)
    THEN FailWith(before \o << Ev("run", argv, rc) >>, message)
    ELSE /\ log' = log \o before \o << Ev("run", argv, rc) >>
         /\ pc' = next_pc
         /\ UNCHANGED exit_status

RunChecked(argv, rc, message, next_pc) ==
    RunCheckedAfter(<< >>, argv, rc, message, next_pc)

\* a setup() that forgets the requirements writer
SkipRequirements == "create_pyproject"

AfterDetect == "setup_requirements"

AfterRequirements == "create_pyproject"

AfterManifest == IF use_poetry THEN "poetry_which" ELSE "pip_venv"

_detect_platform ==
    /\ pc = "detect_platform"
    /\ \E debian \in BOOLEAN, answer \in ToolAnswers :
         IF OsType(sysname, debian) = "unknown"
         THEN /\ FailWith(<< >>, "Unsupported OS")
              /\ UNCHANGED use_poetry
         ELSE LET project_tool == _detect_project_tool(files)
              IN  /\ pc' = AfterDetect
                  /\ UNCHANGED exit_status
                  /\ IF project_tool = "poetry"
                     THEN /\ use_poetry' = TRUE
                          /\ log' = Append(log, Ev("print_info", << "poetry" >>, 0))
                     ELSE IF project_tool \in { "hatch", "flit" }
                     THEN /\ use_poetry' = FALSE
                          /\ log' = Append(log, Ev("print_info", << project_tool >>, 0))
                     ELSE /\ use_poetry' =
                                (Lower(IF answer = << >> THEN PIP ELSE answer) = POETRY)
                          /\ log' = Append(log, Ev("prompt", << "tool" >> \o answer, 0))
    /\ UNCHANGED << sysname, cwd_name, files, dirs, start_files,
                    package_name, path_prepended, discovered, req_idx >>

_setup_requirements ==
    /\ pc = "setup_requirements"
    /\ LET dev_content == _strip_content(DevRequirementsContent)
           fs1 == _write_if_missing(files, REQ, PlaceholderRequirements)
       IN  /\ files' = _write_if_missing(fs1, DEV, dev_content)
           /\ log' = log \o WriteIfMissingLog(files, REQ) \o WriteIfMissingLog(fs1, DEV)
    /\ pc' = AfterRequirements
    /\ UNCHANGED << sysname, cwd_name, dirs, start_files, exit_status,
                    use_poetry, package_name, path_prepended, discovered, req_idx >>

\* _get_git_config(key): the stripped output, or None
GitConfig(rc, value) == IF rc = 0 THEN value ELSE << >>

Or(value, default) == IF value # << >> THEN value ELSE default

\* _create_pyproject_toml, the prompts answered from the given sets
CreatePyproject(names, answers) ==
    /\ pc = "create_pyproject"
    /\ pc' = AfterManifest
    /\ IF Exists(files, PYPROJECT)
       THEN /\ log' = Append(log, Ev("exists", PYPROJECT, 0))
            /\ UNCHANGED << files, dirs, package_name >>
       ELSE \E typed \in names, a \in answers, rc_name \in ExitCodes, rc_email \in ExitCodes :
            LET pkg == IF typed # << >>
                       THEN NormalizePackageInput(typed)
                       ELSE _get_default_package_name(cwd_name)
                version == Or(a.version, << "0.1.0" >>)
                git_name == Or(GitConfig(rc_name, << "git user.name" >>),
                               << "unnamed developer" >>)
                git_email == Or(GitConfig(rc_email, << "git user.email" >>),
                                << "developer@example.com" >>)
                author_name == Or(a.author_name, git_name)
                author_email == Or(a.author_email, git_email)
                build_system == Or(a.build_system, << "hatchling" >>)
                content ==
                    IF use_poetry
                    THEN PoetryTemplate(pkg, version, a.description, author_name,
                                        author_email,
                                        _convert_requirements_to_poetry(files))
                    ELSE PipTemplate(pkg, version, a.description, author_name,
                                     author_email, build_system)
            IN  /\ package_name' = pkg
                /\ dirs' = dirs \cup { SrcDir, PackageDir(pkg) }
                             \cup (IF use_poetry THEN { } ELSE { TestsDir })
                /\ files' = WriteFile(Touch(files, InitFile(pkg)), PYPROJECT,
                                      _strip_content(content))
                /\ log' = log
                     \o << Ev("prompt", << "name" >> \o typed, 0),
                           Ev("prompt", << "version" >>, 0),
                           Ev("prompt", << "description" >>, 0),
                           Ev("run", << "git", "config", "--get", "user.name" >>, rc_name),
                           Ev("run", << "git", "config", "--get", "user.email" >>, rc_email),
                           Ev("prompt", << "author name" >>, 0),
                           Ev("prompt", << "author email" >>, 0),
                           Ev("mkdir", PackageDir(pkg), 0),
                           Ev("touch", InitFile(pkg), 0) >>
                     \o (IF use_poetry THEN << >>
                         ELSE << Ev("prompt", << "build system" >>, 0),
                                 Ev("mkdir", TestsDir, 0) >>)
                     \o << Ev("write", PYPROJECT, 0) >>
    /\ UNCHANGED << sysname, cwd_name, start_files, exit_status, use_poetry,
                    path_prepended, discovered, req_idx >>

_create_pyproject_toml == CreatePyproject(NameInputs, MetadataAnswers)

PoetryInstaller == << "curl -sSL https://install.python-poetry.org | python3 -" >>

PoetryVersionCmd == << "poetry", "--version" >>

PoetryInstallCmd == << "poetry", "install" >>

VenvCmd == << "python3", "-m", "venv" >> \o VENV

UpgradePipCmd == << ".venv/bin/pip", "install", "--upgrade", "pip" >>

InstallRequirementsCmd(req_file) ==
    << ".venv/bin/pip", "install", "-r" >> \o req_file \o << "--upgrade" >>

EditableCmd == << ".venv/bin/pip", "install", "-e", "." >>

\* _setup_poetry, lines 231-234: which("poetry"), and the installer if it is None
PoetryBootstrap ==
    /\ pc = "poetry_which"
    /\ \E found \in BOOLEAN, rc \in ExitCodes :
         IF found
         THEN /\ log' = Append(log, Ev("which", << "poetry" >>, 0))
              /\ pc' = "poetry_version"
              /\ UNCHANGED << exit_status, path_prepended >>
         ELSE /\ RunCheckedAfter(<< Ev("which", << "poetry" >>, 1) >>, PoetryInstaller,
                                 rc, "Poetry setup failed", "poetry_version")
              /\ path_prepended' = ~Raises(rc)
    /\ UNCHANGED << sysname, cwd_name, files, dirs, start_files, use_poetry,
                    package_name, discovered, req_idx >>

\* a version check that ignores the return code
VersionNeverFailed(rc) == FALSE

\* result.returncode != 0 after subprocess.run(["poetry", "--version"])
VersionFailed(rc) == rc # 0

\* _setup_poetry, lines 236-240
PoetryVersion ==
    /\ pc = "poetry_version"
    /\ \E rc \in ExitCodes :
         IF VersionFailed(rc)
         THEN FailWith(<< Ev("run", PoetryVersionCmd, rc) >>,
                       "Poetry installation failed.")
         ELSE /\ log' = Append(log, Ev("run", PoetryVersionCmd, rc))
              /\ pc' = "poetry_install"
              /\ UNCHANGED exit_status
    /\ UNCHANGED << sysname, cwd_name, files, dirs, start_files, use_poetry,
                    package_name, path_prepended, discovered, req_idx >>

\* _setup_poetry, lines 242-246
PoetryInstall ==
    /\ pc = "poetry_install"
    /\ \E rc \in ExitCodes :
         RunChecked(PoetryInstallCmd, rc, "Poetry setup failed", "report")
    /\ UNCHANGED << sysname, cwd_name, files, dirs, start_files, use_poetry,
                    package_name, path_prepended, discovered, req_idx >>

\* _setup_pip, line 252
PipVenv ==
    /\ pc = "pip_venv"
    /\ \E rc \in ExitCodes :
         /\ RunChecked(VenvCmd, rc, "pip setup failed", "pip_upgrade")
         /\ dirs' = IF rc = 0 THEN dirs \cup { VENV } ELSE dirs
    /\ UNCHANGED << sysname, cwd_name, files, start_files, use_poetry,
                    package_name, path_prepended, discovered, req_idx >>

\* _setup_pip, line 253
PipUpgrade ==
    /\ pc = "pip_upgrade"
    /\ \E rc \in ExitCodes :
         RunChecked(UpgradePipCmd, rc, "pip setup failed", "pip_discover")
    /\ UNCHANGED << sysname, cwd_name, files, dirs, start_files, use_poetry,
                    package_name, path_prepended, discovered, req_idx >>

\* a loop that stops after its first turn
LoopDoneAfterFirst(idx, list) == idx >= 1 \/ list = << >>

\* the for loop of line 255 ends after the last entry of the list
LoopDone(idx, list) == idx = Len(list)

\* _setup_pip, line 255: the list the for loop runs over, in os.listdir's order, of
\* the directory the script lies in (Path(__file__).parent)
PipDiscover ==
    /\ pc = "pip_discover"
    /\ \E in_cwd \in BOOLEAN, elsewhere \in ScriptDirListings :
         LET listing == IF in_cwd THEN ListWorkingDir(files, dirs)
                        ELSE elsewhere \cup { SETUP_PY }
         IN  \E order \in Orderings(get_list_of_requirements_files(listing)) :
                /\ discovered' = order
                /\ log' = Append(log, Ev("listdir",
                                         IF in_cwd THEN << "." >> ELSE << "script dir" >>, 0))
                /\ pc' = IF LoopDone(0, order) THEN "pip_editable" ELSE "pip_requirements"
    /\ req_idx' = 0
    /\ UNCHANGED << sysname, cwd_name, files, dirs, start_files, exit_status,
                    use_poetry, package_name, path_prepended >>

\* pip install -r <file>: pip cannot succeed on a file the working directory lacks
PipOutcomes(fs, req_file) == IF Exists(fs, req_file) THEN ExitCodes ELSE { 1 }

\* _setup_pip, lines 255-257: one turn of the for loop
PipInstallRequirements ==
    /\ pc = "pip_requirements"
    /\ LET req_file == discovered[req_idx + 1]
       IN  \E rc \in PipOutcomes(files, req_file) :
             RunChecked(InstallRequirementsCmd(req_file), rc, "pip setup failed",
                        IF LoopDone(req_idx + 1, discovered)
                        THEN "pip_editable" ELSE "pip_requirements")
    /\ req_idx' = req_idx + 1
    /\ UNCHANGED << sysname, cwd_name, files, dirs, start_files, use_poetry,
                    package_name, path_prepended, discovered >>

\* _setup_pip, lines 259-260
PipEditable ==
    /\ pc = "pip_editable"
    /\ \E rc \in ExitCodes :
         RunChecked(EditableCmd, rc, "pip setup failed", "report")
    /\ UNCHANGED << sysname, cwd_name, files, dirs, start_files, use_poetry,
                    package_name, path_prepended, discovered, req_idx >>

\* setup(), lines 222-225: print_env_info, "Setup complete!", and the normal end
Report ==
    /\ pc = "report"
    /\ log' = log \o << Ev("env_info", << >>, 0), Ev("complete", << >>, 0) >>
    /\ Exit(0)
    /\ UNCHANGED << sysname, cwd_name, files, dirs, start_files, use_poetry,
                    package_name, path_prepended, discovered, req_idx >>

\* main() started again in the same directory: a new process, a new ProjectSetup
Rerun ==
    /\ pc = "exited"
    /\ pc' = "detect_platform"
    /\ exit_status' = -1
    /\ use_poetry' = FALSE
    /\ package_name' = << >>
    /\ path_prepended' = FALSE
    /\ discovered' = << >>
    /\ req_idx' = 0
    /\ log' = << >>
    /\ start_files' = files
    /\ UNCHANGED << sysname, cwd_name, files, dirs >>

(***************************************************************************)
(* The working directories a run may start in.                             *)
(***************************************************************************)
PyprojectElements ==
    { "[tool.poetry]", "[tool.hatch]", "[tool.flit]", "[project]", BadByte }

PyprojectContents == BoundedSeq(PyprojectElements, MaxTokens)

UserRequirements == << "f", "l", "a", "s", "k", "\n" >>

UserDevRequirements == << "t", "o", "x", "\n" >>

UserExtraRequirements == << "n", "o", "x", "\n" >>

\* no file of that name, or one with one of the contents
Maybe(name, contents) == { << >> } \cup { name :> c : c \in contents }

\* a ProjectSetup() about to run setup() in a directory holding `fs`
Fresh(fs) ==
    /\ files = fs
    /\ start_files = fs
    /\ dirs = { }
    /\ exit_status = -1
    /\ use_poetry = FALSE
    /\ package_name = << >>
    /\ path_prepended = FALSE
    /\ discovered = << >>
    /\ req_idx = 0
    /\ log = << >>

Init ==
    /\ sysname \in Sysnames
    /\ cwd_name = MyProject
    /\ pc = "detect_platform"
    /\ \E py \in Maybe(PYPROJECT, PyprojectContents),
          req \in Maybe(REQ, { UserRequirements }),
          dev \in Maybe(DEV, { UserDevRequirements }),
          extra \in Maybe(EXTRA, { UserExtraRequirements }) :
         Fresh(py @@ req @@ dev @@ extra)

Next ==
    \/ _detect_platform
    \/ _setup_requirements
    \/ _create_pyproject_toml
    \/ PoetryBootstrap
    \/ PoetryVersion
    \/ PoetryInstall
    \/ PipVenv
    \/ PipUpgrade
    \/ PipDiscover
    \/ PipInstallRequirements
    \/ PipEditable
    \/ Report
    \/ Rerun

Spec == Init /\ [][Next]_vars

(***************************************************************************)
(* The manifest generator on its own: a run whose detection chose poetry,  *)
(* over every short requirements.txt.                                      *)
(***************************************************************************)
ReqAlphabet == { "a", "#", " ", "\n", "\t", "\f" }

InitManifest ==
    /\ sysname = "Linux"
    /\ cwd_name = MyProject
    /\ pc = "setup_requirements"
    /\ \E req \in Maybe(REQ, BoundedSeq(ReqAlphabet, MaxReqLen)) :
         /\ files = req
         /\ start_files = req
    /\ dirs = { }
    /\ exit_status = -1
    /\ use_poetry = TRUE
    /\ package_name = << >>
    /\ path_prepended = FALSE
    /\ discovered = << >>
    /\ req_idx = 0
    /\ log = << Ev("prompt", << "tool" >> \o POETRY, 0) >>

\* the manifest generator, the user keeping the default package name
CreateManifest == CreatePyproject({ << >> }, MetadataAnswers)

NextManifest ==
    \/ _setup_requirements
    \/ CreateManifest

SpecManifest == InitManifest /\ [][NextManifest]_vars

(***************************************************************************)
(* The package name on its own: the manifest generator in an empty         *)
(* directory, over every short directory name.                             *)
(***************************************************************************)
NameAlphabet == { "M", "y", " ", "-" }

InitName ==
    /\ sysname = "Linux"
    /\ cwd_name \in BoundedSeq(NameAlphabet, MaxNameLen) \cup { MyProject }
    /\ pc = "create_pyproject"
    /\ files = (REQ :> PlaceholderRequirements)
                 @@ (DEV :> _strip_content(DevRequirementsContent))
    /\ start_files = << >>
    /\ dirs = { }
    /\ exit_status = -1
    /\ use_poetry \in BOOLEAN
    /\ package_name = << >>
    /\ path_prepended = FALSE
    /\ discovered = << >>
    /\ req_idx = 0
    /\ log = << Ev("prompt", << "tool" >> \o (IF use_poetry THEN POETRY ELSE PIP), 0),
                Ev("write", REQ, 0), Ev("write", DEV, 0) >>

NextName == _create_pyproject_toml

SpecName == InitName /\ [][NextName]_vars

(***************************************************************************)
(* The claims.                                                             *)
(***************************************************************************)
Events == 1..Len(log)

\* a subprocess of an installer: every subprocess but the git lookups
IsInstallRun(e) == e.kind = "run" /\ e.arg[1] # "git"

IsRunOf(e, argv) == e.kind = "run" /\ e.arg = argv

\* the script opened f for writing, or found it and left it alone
Handled(e, f) == e.kind \in { "write", "exists" } /\ e.arg = f

Completed == pc = "exited" /\ exit_status = 0

\* C1: a file among pyproject.toml, requirements.txt and requirements.dev.txt
\* that exists when a run starts is never opened for writing during the run
\* and keeps its content; a completed run leaves all three in place, so a run
\* after it starts with all three and changes none.
C1_ExistingFilesPreserved ==
    /\ \A f \in Managed :
         Exists(start_files, f) =>
            /\ Exists(files, f)
            /\ files[f] = start_files[f]
            /\ \A i \in Events : ~(log[i].kind = "write" /\ log[i].arg = f)
    /\ Completed => \A f \in Managed : Exists(files, f)

\* a later run, started with the three files an earlier run wrote, has completed
C1_Witness ==
    /\ Completed
    /\ Exists(start_files, PYPROJECT) /\ Contains(start_files[PYPROJECT], "[project]")
    /\ Exists(start_files, REQ) /\ start_files[REQ] = PlaceholderRequirements
    /\ Exists(start_files, DEV) /\ start_files[DEV] # UserDevRequirements

\* C2: on a system that is neither Darwin nor Linux the run prints the error
\* and ends with status 1, and nothing else ever happens: no file or
\* directory is created or written, no prompt is shown, no subprocess is run.
C2_UnsupportedOsExitsFirst ==
    sysname \notin { "Darwin", "Linux" } =>
        /\ files = start_files
        /\ dirs = { }
        /\ \/ pc = "detect_platform" /\ exit_status = -1 /\ log = << >>
           \/ /\ pc = "exited"
              /\ exit_status = 1
              /\ log = << Ev("print_error", << "Unsupported OS" >>, 0) >>

C2_Witness ==
    /\ sysname = "FreeBSD"
    /\ pc = "exited"
    /\ exit_status = 1
    /\ Len(log) = 1

Markers == << "[tool.poetry]", "[tool.hatch]", "[tool.flit]" >>

Tools == << "poetry", "hatch", "flit" >>

\* the tool of the highest-priority marker the text holds, "none" without one
HighestPriorityTool(content) ==
    LET present == { k \in 1..3 : Contains(content, Markers[k]) }
    IN  IF present = { } THEN "none"
        ELSE Tools[CHOOSE k \in present : \A j \in present : k <= j]

\* detection has run on a supported system: its report or its prompt is logged
Detected == log # << >> /\ log[1].kind \in { "print_info", "prompt" }

\* what the run did on a detection result `want`
FollowsTool(want) ==
    /\ _detect_project_tool(start_files) = want
    /\ IF want = "none"
       THEN log[1].kind = "prompt"
       ELSE log[1] = Ev("print_info", << want >>, 0)
    /\ want = "poetry" => use_poetry
    /\ want \in { "hatch", "flit" } => ~use_poetry
    /\ (log[1].kind = "print_info" /\ use_poetry) <=> want = "poetry"

\* C3 as claimed: for every existing pyproject.toml the tool of the
\* highest-priority marker it holds is detected (none without a marker or a
\* file); poetry is chosen without a prompt exactly on poetry, hatch and flit
\* choose pip without a prompt.
C3_MarkerPriorityEveryFile ==
    Detected =>
        FollowsTool(IF Exists(start_files, PYPROJECT)
                    THEN HighestPriorityTool(start_files[PYPROJECT])
                    ELSE "none")

Decodable(content) == ~Contains(content, BadByte)

\* C3 amended: the same for every existing pyproject.toml that can be read as
\* UTF-8 text; one that cannot is treated as holding no marker, and the user
\* is prompted.
C3_MarkerPriorityReadableFile ==
    Detected =>
        FollowsTool(IF Exists(start_files, PYPROJECT) /\ Decodable(start_files[PYPROJECT])
                    THEN HighestPriorityTool(start_files[PYPROJECT])
                    ELSE "none")

\* a file holding the flit marker before the poetry marker selected poetry
C3_Witness ==
    /\ Detected
    /\ Exists(start_files, PYPROJECT)
    /\ start_files[PYPROJECT] = << "[tool.flit]", "[tool.poetry]" >>
    /\ use_poetry
    /\ log[1].kind = "print_info"

\* C4: a failing subprocess of an installer is the last one: the failure is
\* reported next and the process ends with status 1, nothing else is run or
\* printed, no command is run twice; status 0 comes only after the last
\* command of the strategy and with every installer subprocess at 0.
C4_SubprocessFailureTerminal ==
    /\ \A i \in Events :
         (IsInstallRun(log[i]) /\ log[i].rc # 0) =>
            /\ Len(log) = i + 1
            /\ log[i + 1].kind = "print_error"
            /\ pc = "exited"
            /\ exit_status = 1
    /\ \A i, j \in Events :
         (i < j /\ IsInstallRun(log[i]) /\ IsInstallRun(log[j])) =>
            log[i].arg # log[j].arg
    /\ exit_status = 0 =>
         /\ \A i \in Events : IsInstallRun(log[i]) => log[i].rc = 0
         /\ \E i \in Events :
              IsRunOf(log[i], IF use_poetry THEN PoetryInstallCmd ELSE EditableCmd)

\* a requirements install failed after two commands had succeeded
C4_Witness ==
    /\ pc = "exited"
    /\ exit_status = 1
    /\ \E i \in Events :
         /\ i > 2
         /\ IsInstallRun(log[i])
         /\ log[i].rc # 0
         /\ IsInstallRun(log[i - 1])
         /\ log[i - 1].rc = 0

\* some event before the i-th passes the test
Before(i, Test(_)) == \E j \in 1..(i - 1) : Test(log[j])

DetectionEvent(e) ==
    e.kind = "print_info" \/ (e.kind = "prompt" /\ e.arg[1] = "tool")

ManifestEvent(e) == Handled(e, PYPROJECT)

BaseRequirementsEvent(e) == Handled(e, REQ)

DevRequirementsEvent(e) == Handled(e, DEV)

InstallEvent(e) == IsInstallRun(e) \/ e.kind \in { "which", "listdir" }

\* the last command of an installer, ended with status 0
InstallFinished(e) ==
    /\ e.rc = 0
    /\ IsRunOf(e, PoetryInstallCmd) \/ IsRunOf(e, EditableCmd)

\* what C7 as claimed and C7 as amended share: detection first, the
\* installer after manifest and requirements, the reporter after the installer
StagesAroundTheWriters ==
    \A i \in Events :
        /\ (ManifestEvent(log[i]) \/ BaseRequirementsEvent(log[i])
              \/ DevRequirementsEvent(log[i])) => Before(i, DetectionEvent)
        /\ InstallEvent(log[i]) =>
              /\ Before(i, ManifestEvent)
              /\ Before(i, BaseRequirementsEvent)
              /\ Before(i, DevRequirementsEvent)
        /\ log[i].kind \in { "env_info", "complete" } =>
              /\ Before(i, InstallFinished)
              /\ \A k \in Events : k > i => ~InstallEvent(log[k])

\* C7 as claimed: the stages run in the order detection, manifest generation,
\* requirements writing, installation, reporting.
C7_ManifestBeforeRequirements ==
    /\ StagesAroundTheWriters
    /\ \A i \in Events :
         (BaseRequirementsEvent(log[i]) \/ DevRequirementsEvent(log[i])) =>
            Before(i, ManifestEvent)

\* C7 amended: the stages run in the order detection, requirements writing,
\* manifest generation, installation, reporting: the manifest generator runs
\* only after both requirements files were ensured.
C7_RequirementsBeforeManifest ==
    /\ StagesAroundTheWriters
    /\ \A i \in Events :
         ManifestEvent(log[i]) =>
            /\ Before(i, BaseRequirementsEvent)
            /\ Before(i, DevRequirementsEvent)

\* a completed run that wrote all three files
C7_Witness ==
    /\ Completed
    /\ \A f \in Managed : \E i \in Events : log[i] = Ev("write", f, 0)

WhichEvent(e, rc) == e = Ev("which", << "poetry" >>, rc)

\* C8: the installer pipeline is run exactly when poetry is not found on the
\* path, and PATH is extended exactly after it succeeded; poetry install is
\* run only after poetry --version ended with 0 in the same run; a failing
\* poetry --version is reported and ends the run with status 1.
C8_PoetryBootstrapOrder ==
    /\ (use_poetry /\ pc \in { "poetry_version", "poetry_install", "report" }) =>
          \E i \in Events : log[i].kind = "which"
    /\ \A i \in Events :
         /\ IsRunOf(log[i], PoetryInstaller) => (i > 1 /\ WhichEvent(log[i - 1], 1))
         /\ WhichEvent(log[i], 1) => (i < Len(log) /\ IsRunOf(log[i + 1], PoetryInstaller))
         /\ WhichEvent(log[i], 0) => \A k \in Events : ~IsRunOf(log[k], PoetryInstaller)
         /\ IsRunOf(log[i], PoetryInstallCmd) =>
               \E j \in 1..(i - 1) : IsRunOf(log[j], PoetryVersionCmd) /\ log[j].rc = 0
         /\ (IsRunOf(log[i], PoetryVersionCmd) /\ log[i].rc # 0) =>
               /\ Len(log) = i + 1
               /\ log[i + 1].kind = "print_error"
               /\ pc = "exited"
               /\ exit_status = 1
    /\ path_prepended <=>
          \E i \in Events : IsRunOf(log[i], PoetryInstaller) /\ log[i].rc = 0

\* the installer succeeded and poetry --version failed all the same
C8_Witness ==
    /\ pc = "exited"
    /\ exit_status = 1
    /\ path_prepended
    /\ \E i \in Events : IsRunOf(log[i], PoetryVersionCmd) /\ log[i].rc # 0

\* the commands the pip strategy runs over the list `list`, in order
PipCommands(list) ==
    << VenvCmd, UpgradePipCmd >>
       \o [ k \in 1..Len(list) |-> InstallRequirementsCmd(list[k]) ]
       \o << EditableCmd >>

\* C9: the installer subprocesses of the pip strategy are, in order, a prefix
\* of: create .venv, upgrade pip, one install per discovered file (each file
\* once), the editable install; every one but the last run ended with 0.
C9_PipCommandSequence ==
    ~use_poetry =>
        LET ran == SelectSeq(log, IsInstallRun)
            plan == PipCommands(discovered)
        IN  /\ Len(ran) <= Len(plan)
            /\ \A k \in 1..Len(ran) :
                 /\ ran[k].arg = plan[k]
                 /\ k < Len(ran) => ran[k].rc = 0
            /\ \A i, j \in 1..Len(discovered) :
                 discovered[i] = discovered[j] => i = j
            /\ Len(ran) > 2 => \E i \in Events : log[i].kind = "listdir"

\* a completed pip run that installed three requirements files
C9_Witness ==
    /\ Completed
    /\ ~use_poetry
    /\ Len(discovered) = 3
    /\ Len(SelectSeq(log, IsInstallRun)) = 6

Listed == \E i \in Events : log[i].kind = "listdir"

\* C10 as claimed: the files handed to pip install -r are the requirements*.txt
\* files of the working directory, so each exists there, and requirements.txt
\* and requirements.dev.txt are among them.
C10_DiscoveryInWorkingDirectory ==
    Listed =>
        /\ Range(discovered) = { f \in DOMAIN files : IsRequirementsFile(f) }
        /\ { REQ, DEV } \subseteq Range(discovered)
        /\ \A i \in Events, f \in Range(discovered) :
             IsRunOf(log[i], InstallRequirementsCmd(f)) => Exists(files, f)

\* the manifest generator wrote pyproject.toml from the poetry template
PoetryManifestWritten ==
    /\ use_poetry
    /\ Exists(files, PYPROJECT)
    /\ \E i \in Events : log[i] = Ev("write", PYPROJECT, 0)

ManifestLines == Split(files[PYPROJECT], "\n")

LineNumber(lines, line) == CHOOSE i \in 1..Len(lines) : lines[i] = line

\* the lines of the written [tool.poetry.dependencies] block after its fixed
\* python line, up to the next section
DependencyLines ==
    LET lines == ManifestLines
    IN  SubSeq(lines, LineNumber(lines, << "[tool.poetry.dependencies]" >>) + 2,
                      LineNumber(lines, << "[tool.poetry.dev-dependencies]" >>) - 1)

\* requirements.txt as the generator found it, line by line
RequirementLines == FileLines(files[REQ])

NotEmptyNotComment(line) == line # << >> /\ line[1] # "#"

\* C5 as claimed: the block holds, in file order, one line for every line of
\* requirements.txt that is not empty and does not start with '#', and each
\* of them is indented in the written manifest.
C5_DependenciesIndented ==
    PoetryManifestWritten =>
        LET wanted == SelectSeq(RequirementLines, NotEmptyNotComment)
            found == DependencyLines
        IN  /\ Len(found) = Len(wanted)
            /\ \A k \in 1..Len(found) :
                 /\ Strip(found[k]) = Strip(wanted[k])
                 /\ found[k][1] = " "

StrippedRequirementLines ==
    [ i \in 1..Len(RequirementLines) |-> Strip(RequirementLines[i]) ]

\* no tab and no form feed inside the stripped text of a dependency
PlainDependencies ==
    LET stripped == StrippedRequirementLines
    IN  \A i \in 1..Len(stripped) :
            NotEmptyNotComment(stripped[i]) =>
                (Range(stripped[i]) \cap { "\t", "\f" }) = { }

\* C5 amended: no line of the written manifest is indented, blank or ends in
\* whitespace; and, the dependencies holding no tab and no form feed, the
\* block is, in file order, the stripped text of every line of
\* requirements.txt that is non-empty once stripped and does not then start
\* with '#'.
C5_DependenciesStripped ==
    PoetryManifestWritten =>
        LET lines == ManifestLines
        IN  /\ \A k \in 1..Len(lines) :
                 /\ lines[k] # << >>
                 /\ lines[k][1] \notin Whitespace
                 /\ lines[k][Len(lines[k])] \notin Whitespace
            /\ PlainDependencies =>
                 DependencyLines = SelectSeq(StrippedRequirementLines, NotEmptyNotComment)

\* a blank line of one space and an indented dependency gave the one line "a"
C5_Witness ==
    /\ PoetryManifestWritten
    /\ files[REQ] = << " ", "\n", " ", "a" >>
    /\ DependencyLines = << << "a" >> >>

\* the user kept the default at the "Package name" prompt
NameDefaulted == \E i \in Events : log[i] = Ev("prompt", << "name" >>, 0)

Separator(c) == c \in { " ", "-" }

ExpectedChar(c) ==
    IF Separator(c) THEN "_"
    ELSE IF c = "M" THEN "m"
    ELSE IF c = "P" THEN "p"
    ELSE c

\* s in lowercase, every run of spaces and hyphens replaced by one "_"
Collapsed(s) ==
    LET kept == { i \in 1..Len(s) : ~(Separator(s[i]) /\ i > 1 /\ Separator(s[i - 1])) }
        Nth(k) == CHOOSE i \in kept : Cardinality({ j \in kept : j < i }) = k - 1
    IN  [ k \in 1..Cardinality(kept) |-> ExpectedChar(s[Nth(k)]) ]

my_project == << "m", "y", "_", "p", "r", "o", "j", "e", "c", "t" >>

CleanName(name) == Range(name) \cap { "M", "P", " ", "-" } = { }

\* C6 as claimed: the default package name is the directory name in
\* lowercase with every run of spaces and hyphens collapsed to one '_'; it
\* holds no uppercase letter, space or hyphen; "My Project" gives my_project.
C6_DefaultNameCollapsed ==
    NameDefaulted =>
        /\ package_name = Collapsed(cwd_name)
        /\ CleanName(package_name)
        /\ cwd_name = MyProject => package_name = my_project

\* C6 amended: the default package name is the directory name in lowercase
\* with every single space and every single hyphen replaced by '_' (a run of
\* n of them gives n underscores); it holds no uppercase letter, space or
\* hyphen; "My Project" gives my_project.
C6_DefaultNameReplaced ==
    NameDefaulted =>
        /\ Len(package_name) = Len(cwd_name)
        /\ \A i \in 1..Len(cwd_name) : package_name[i] = ExpectedChar(cwd_name[i])
        /\ CleanName(package_name)
        /\ cwd_name = MyProject => package_name = my_project

\* a space and a hyphen side by side gave two underscores
C6_Witness ==
    /\ NameDefaulted
    /\ cwd_name = << "M", " ", "-", "y" >>
    /\ package_name = << "m", "_", "_", "y" >>

====
